---------------------------- MODULE Spec2Model ----------------------------
(***************************************************************************)
(* Model of package container (src/container/container.go): the password   *)
(* protected container built by CreateContainer and opened by              *)
(* DecryptContainer.                                                       *)
(*                                                                         *)
(* Byte strings are sequences of integers 0..255, text strings (the hex    *)
(* fields of the record) are sequences of one-character strings.  The      *)
(* library primitives are modelled by what the code relies on:             *)
(*   hex.EncodeToString / hex.DecodeString  exactly, digit by digit;       *)
(*   json.Marshal / json.Unmarshal  as a map from field name to a typed    *)
(*       value, absent fields decoding to the zero value;                  *)
(*   sha256.Sum256  as a collision-free 32-byte digest;                    *)
(*   pbkdf2.Key  as a key determined by (password, salt, max(iter,1));     *)
(*   AES-CTR  as XOR with a keystream determined by (key, iv, position).   *)
(* A run time panic of the Go program is the outcome "panic".              *)
(***************************************************************************)
EXTENDS Integers, Sequences, FiniteSets, TLC

VARIABLES plaintext, password, container1, container2, doc, tamper, result

vars == <<plaintext, password, container1, container2, doc, tamper, result>>

---------------------------------------------------------------------------
(* Program constants *)

saltLen == 12

ivLen == 16

BlockSize == 16

KeyLen == 32

DigestSize == 32

(* Bounds of the model *)

MaxLen == 2

MaxElapsed == 4097

---------------------------------------------------------------------------
(* Input domains *)

PlainBytes == {0, 97}

Plaintexts == UNION {[1..n -> PlainBytes] : n \in 0..MaxLen}

Passwords == {<<>>, <<112>>}

\* Values crypto/rand may deliver for the salt and the IV.
SaltSet == {[i \in 1..saltLen |-> 0], [i \in 1..saltLen |-> (i * 37) % 256]}

IVSet == {[i \in 1..ivLen |-> 255], [i \in 1..ivLen |-> (i * 11) % 256]}

\* Elapsed nanoseconds the benchmark may measure.
ElapsedSet == {0, MaxElapsed}

DeltaSet == {129}

---------------------------------------------------------------------------
(* Bytes *)

RECURSIVE XorBits(_, _, _)
XorBits(a, b, n) ==
    IF n = 0 THEN 0
    ELSE (((a % 2) + (b % 2)) % 2) + 2 * XorBits(a \div 2, b \div 2, n - 1)

XorByte(a, b) == XorBits(a, b, 8)

RECURSIVE Fold(_)
Fold(s) == IF s = <<>> THEN 0 ELSE (s[1] + 3 * Fold(Tail(s)) + 1) % 256

---------------------------------------------------------------------------
(* encoding/hex *)

HexDigits == <<"0", "1", "2", "3", "4", "5", "6", "7",
               "8", "9", "a", "b", "c", "d", "e", "f">>

UpperDigits == <<"A", "B", "C", "D", "E", "F">>

fromHexChar(c) ==
    IF \E i \in 1..16 : HexDigits[i] = c
    THEN (CHOOSE i \in 1..16 : HexDigits[i] = c) - 1
    ELSE IF \E i \in 1..6 : UpperDigits[i] = c
    THEN (CHOOSE i \in 1..6 : UpperDigits[i] = c) + 9
    ELSE -1

EncodeToString(b) ==
    [i \in 1..(2 * Len(b)) |->
        IF i % 2 = 1 THEN HexDigits[(b[(i + 1) \div 2] \div 16) + 1]
        ELSE HexDigits[(b[i \div 2] % 16) + 1]]

DecodeString(s) ==
    LET n == Len(s) \div 2
        bad == \E i \in 1..(2 * n) : fromHexChar(s[i]) = -1
    IN  IF bad THEN [err |-> "InvalidByteError", bytes |-> <<>>]
        ELSE IF Len(s) % 2 = 1
        THEN IF fromHexChar(s[Len(s)]) = -1
             THEN [err |-> "InvalidByteError", bytes |-> <<>>]
             ELSE [err |-> "ErrLength", bytes |-> <<>>]
        ELSE [err |-> "",
              bytes |-> [i \in 1..n |->
                  16 * fromHexChar(s[2 * i - 1]) + fromHexChar(s[2 * i])]]

decodeHex(hexStr) == DecodeString(hexStr)

---------------------------------------------------------------------------
(* Cryptographic primitives *)

Sum256(data) ==
    [i \in 1..DigestSize |->
        IF i = 1 THEN Len(data)
        ELSE IF i - 1 <= Len(data) THEN (data[i - 1] + 31 * i) % 256
        ELSE (7 * i) % 256]

pbkdf2Key(pw, salt, iter, keyLen) ==
    [len |-> keyLen, pw |-> pw, salt |-> salt,
     iter |-> IF iter < 1 THEN 1 ELSE iter]

NewCipher(key) ==
    IF key.len \in {16, 24, 32} THEN [err |-> "", key |-> key]
    ELSE [err |-> "KeySizeError", key |-> key]

KeyStreamByte(key, iv, i) ==
    (5 * Fold(key.pw) + 7 * Fold(key.salt) + 11 * (key.iter % 251)
       + 13 * Fold(iv) + 17 * i + 1) % 256

XORKeyStream(key, iv, src) ==
    [i \in 1..Len(src) |-> XorByte(src[i], KeyStreamByte(key, iv, i))]

---------------------------------------------------------------------------
(* encoding/json: a document is either text that does not parse, or an    *)
(* object given as a map from the (flattened) field names to typed values. *)

Fields == {"Version", "Salt", "Iters", "IV", "EncryptedData", "HMAC"}

HexFields == {"Salt", "IV", "EncryptedData", "HMAC"}

JStr(s) == [type |-> "string", str |-> s, num |-> 0]

JNum(n) == [type |-> "number", str |-> <<>>, num |-> n]

FieldType(k) == IF k = "Iters" THEN "number" ELSE "string"

\* The text "" returned beside an error: not a JSON document.
NoJSON == [valid |-> FALSE, fields |-> [k \in {} |-> JNum(0)]]

\* type Container struct, with the zero value of every field.
Container == [Version |-> <<>>, Salt |-> <<>>, Iters |-> 0, IV |-> <<>>,
              EncryptedData |-> <<>>, HMAC |-> <<>>]

SetContainerMeta(c, version) == [c EXCEPT !.Version = version]

SetDeriveInfo(c, salt, iters) == [c EXCEPT !.Salt = salt, !.Iters = iters]

SetEncryptionInfo_Dropped(c, iv) == c

SetEncryptionInfo(c, iv) == [c EXCEPT !.IV = iv]

SetContainedData(c, encryptedData, hmac) ==
    [c EXCEPT !.EncryptedData = encryptedData, !.HMAC = hmac]

Marshal(c) ==
    [valid |-> TRUE,
     fields |-> [k \in Fields |->
                    IF k = "Iters" THEN JNum(c[k]) ELSE JStr(c[k])]]

Unmarshal(d) ==
    IF ~d.valid THEN [err |-> "SyntaxError", c |-> Container]
    ELSE IF \E k \in DOMAIN d.fields : d.fields[k].type # FieldType(k)
    THEN [err |-> "UnmarshalTypeError", c |-> Container]
    ELSE [err |-> "",
          c |-> [k \in Fields |->
                    IF k \in DOMAIN d.fields
                    THEN (IF k = "Iters" THEN d.fields[k].num
                          ELSE d.fields[k].str)
                    ELSE Container[k]]]

---------------------------------------------------------------------------
(* package container *)

\* rnd is what rand.Read does: it fills the buffer or fails.
generateRandomBytes(length, rnd) ==
    IF rnd.err # "" THEN [err |-> rnd.err, bytes |-> <<>>]
    ELSE [err |-> "", bytes |-> SubSeq(rnd.bytes, 1, length)]

generateRandomNumber_NoFloor(elapsed, draw) == draw

\* elapsed is workload's result, draw is random.Intn(int(elapsed) + 1).
generateRandomNumber(elapsed, draw) ==
    LET randomNumber == draw
    IN  IF randomNumber < 4096 THEN 4096 ELSE randomNumber

\* The values random.Intn(n) may return; it panics for n <= 0.
Intn(n) == 0..(n - 1)

SealPayload_NoPrefix(key, iv, pt) == XORKeyStream(key, iv, pt)

\* ciphertext := make([]byte, aes.BlockSize+len(plaintext)), then the key
\* stream over ciphertext[aes.BlockSize:].
SealPayload(key, iv, pt) ==
    [i \in 1..BlockSize |-> 0] \o XORKeyStream(key, iv, pt)

CreateContainer(pt, pw, rndSalt, iterCount, rndIV) ==
    LET hmac == Sum256(pt)
        salt == generateRandomBytes(saltLen, rndSalt)
        iv   == generateRandomBytes(ivLen, rndIV)
        dk   == pbkdf2Key(pw, salt.bytes, iterCount, KeyLen)
        block == NewCipher(dk)
        ciphertext == SealPayload(dk, iv.bytes, pt)
        c1 == SetContainerMeta(Container, <<"v", "1", ".", "0">>)
        c2 == SetDeriveInfo(c1, EncodeToString(salt.bytes), iterCount)
        c3 == SetEncryptionInfo(c2, EncodeToString(iv.bytes))
        c4 == SetContainedData(c3, EncodeToString(ciphertext),
                               EncodeToString(hmac))
    IN  IF salt.err # "" THEN [json |-> NoJSON, err |-> salt.err]
        ELSE IF iv.err # "" THEN [json |-> NoJSON, err |-> iv.err]
        ELSE IF block.err # "" THEN [json |-> NoJSON, err |-> block.err]
        ELSE [json |-> Marshal(c4), err |-> ""]

OpenPayload_OffByOne(encrypted) ==
    SubSeq(encrypted, BlockSize, Len(encrypted))

\* encrypted[aes.BlockSize:]
OpenPayload(encrypted) == SubSeq(encrypted, BlockSize + 1, Len(encrypted))

\* The comparison that guards the return of the plaintext.
TagMatches(recovered, stored) == EncodeToString(Sum256(recovered)) = stored

Failure(err, derived) ==
    [outcome |-> "error", text |-> <<>>, err |-> err, derived |-> derived]

Panic(msg, derived) ==
    [outcome |-> "panic", text |-> <<>>, err |-> msg, derived |-> derived]

\* derived records whether pbkdf2.Key had run when the call ended.
DecryptContainer(containerJSON, pw) ==
    LET parsed    == Unmarshal(containerJSON)
        container == parsed.c
        salt      == DecodeString(container.Salt)
        encrypted == DecodeString(container.EncryptedData)
        iv        == DecodeString(container.IV)
        dk        == pbkdf2Key(pw, salt.bytes, container.Iters, KeyLen)
        block     == NewCipher(dk)
        pt        == XORKeyStream(dk, iv.bytes, OpenPayload(encrypted.bytes))
    IN  IF parsed.err # "" THEN Failure(parsed.err, FALSE)
        ELSE IF salt.err # "" THEN Failure(salt.err, FALSE)
        ELSE IF encrypted.err # "" THEN Failure(encrypted.err, FALSE)
        ELSE IF iv.err # "" THEN Failure(iv.err, FALSE)
        ELSE IF block.err # "" THEN Failure(block.err, TRUE)
        ELSE IF Len(encrypted.bytes) - BlockSize < 0
        THEN Panic("makeslice: len out of range", TRUE)
        ELSE IF Len(iv.bytes) # BlockSize
        THEN Panic("cipher.NewCTR: IV length must equal block size", TRUE)
        ELSE IF ~TagMatches(pt, container.HMAC)
        THEN Failure("HMAC mismatch", TRUE)
        ELSE [outcome |-> "ok", text |-> pt, err |-> "", derived |-> TRUE]

---------------------------------------------------------------------------
(* The callers: a record is sealed, possibly sealed a second time from the *)
(* same inputs, possibly altered in storage, and opened.                   *)

RandDraws(S) ==
    {[err |-> "", bytes |-> b] : b \in S} \cup {[err |-> "EIO", bytes |-> <<>>]}

\* Every (elapsed, iteration count) generateRandomNumber can produce.
Calibrations ==
    UNION {{[elapsed |-> e, iters |-> generateRandomNumber(e, d)] :
                d \in Intn(e + 1)} : e \in ElapsedSet}

NoDraw == [salt |-> [err |-> "", bytes |-> <<>>],
           iv |-> [err |-> "", bytes |-> <<>>], iters |-> 0, elapsed |-> 0]

NotCalled == [called |-> FALSE, json |-> NoJSON, err |-> "", draw |-> NoDraw]

NoTamper == [kind |-> "none", field |-> "", pos |-> 0, delta |-> <<>>]

NoResult == [done |-> FALSE, pw |-> <<>>, outcome |-> "", text |-> <<>>,
             err |-> "", derived |-> FALSE]

Call(pt, pw, rndSalt, cal, rndIV) ==
    LET r == CreateContainer(pt, pw, rndSalt, cal.iters, rndIV)
    IN  [called |-> TRUE, json |-> r.json, err |-> r.err,
         draw |-> [salt |-> rndSalt, iv |-> rndIV, iters |-> cal.iters,
                   elapsed |-> cal.elapsed]]

\* Text a stored field may be replaced by.
TextSet ==
    {<<>>, <<"0">>, <<"z", "z">>, <<"0", "0">>,
     [i \in 1..(2 * BlockSize - 2) |-> "0"]}

NumSet == {-1, 0}

Init ==
    /\ plaintext = <<>>
    /\ password = <<>>
    /\ container1 = NotCalled
    /\ container2 = NotCalled
    /\ doc = NoJSON
    /\ tamper = NoTamper
    /\ result = NoResult

Seal ==
    /\ ~container1.called
    /\ \E pt \in Plaintexts, pw \in Passwords, rndSalt \in RandDraws(SaltSet),
          cal \in Calibrations, rndIV \in RandDraws(IVSet) :
          /\ plaintext' = pt
          /\ password' = pw
          /\ container1' = Call(pt, pw, rndSalt, cal, rndIV)
          /\ doc' = container1'.json
    /\ UNCHANGED <<container2, tamper, result>>

SealAgain ==
    /\ container1.called
    /\ ~container2.called
    /\ tamper.kind = "none"
    /\ ~result.done
    /\ \E rndSalt \in RandDraws(SaltSet), cal \in Calibrations,
          rndIV \in RandDraws(IVSet) :
          container2' = Call(plaintext, password, rndSalt, cal, rndIV)
    /\ UNCHANGED <<plaintext, password, container1, doc, tamper, result>>

Stored ==
    /\ container1.called
    /\ container1.err = ""
    /\ ~container2.called
    /\ tamper.kind = "none"
    /\ ~result.done

WithField(d, k, v) ==
    [d EXCEPT !.fields = [f \in DOMAIN d.fields \cup {k} |->
                              IF f = k THEN v ELSE d.fields[f]]]

WithoutField(d, k) ==
    [d EXCEPT !.fields = [f \in DOMAIN d.fields \ {k} |-> d.fields[f]]]

FlipAt(bytes, pos, delta) ==
    [i \in 1..Len(bytes) |->
        IF i = pos THEN XorByte(bytes[i], delta) ELSE bytes[i]]

\* One byte of the decoded EncryptedData or HMAC field is changed.
FlipByte ==
    /\ Stored
    /\ \E k \in {"EncryptedData", "HMAC"}, delta \in DeltaSet :
          LET bytes == DecodeString(doc.fields[k].str).bytes
          IN  \E pos \in 1..Len(bytes) :
                 /\ doc' = WithField(doc, k,
                        JStr(EncodeToString(FlipAt(bytes, pos, delta))))
                 /\ tamper' = [kind |-> "flip", field |-> k, pos |-> pos,
                               delta |-> <<delta>>]
    /\ UNCHANGED <<plaintext, password, container1, container2, result>>

\* A field is replaced by other text or another number.
SetField ==
    /\ Stored
    /\ \E k \in Fields \ {"Version"}, v \in {JStr(t) : t \in TextSet} \cup
                             {JNum(n) : n \in NumSet} :
          /\ doc' = WithField(doc, k, v)
          /\ tamper' = [kind |-> "set", field |-> k, pos |-> 0,
                        delta |-> <<>>]
    /\ UNCHANGED <<plaintext, password, container1, container2, result>>

\* A field is removed from the document.
DropField ==
    /\ Stored
    /\ \E k \in Fields :
          /\ doc' = WithoutField(doc, k)
          /\ tamper' = [kind |-> "drop", field |-> k, pos |-> 0,
                        delta |-> <<>>]
    /\ UNCHANGED <<plaintext, password, container1, container2, result>>

XorBytes(a, b) == [i \in 1..Len(a) |-> XorByte(a[i], b[i])]

\* Someone who knows the plaintext but not the password XORs delta into the
\* ciphertext and stores the digest of the altered plaintext.
Forge ==
    /\ Stored
    /\ plaintext # <<>>
    /\ \E delta \in [1..Len(plaintext) -> DeltaSet \cup {0}] :
          /\ \E i \in 1..Len(plaintext) : delta[i] # 0
          /\ LET enc == DecodeString(doc.fields["EncryptedData"].str).bytes
                 pad == [i \in 1..BlockSize |-> 0] \o delta
                 d1  == WithField(doc, "EncryptedData",
                            JStr(EncodeToString(XorBytes(enc, pad))))
             IN  doc' = WithField(d1, "HMAC",
                     JStr(EncodeToString(Sum256(XorBytes(plaintext, delta)))))
          /\ tamper' = [kind |-> "forge", field |-> "", pos |-> 0,
                        delta |-> delta]
    /\ UNCHANGED <<plaintext, password, container1, container2, result>>

Open ==
    /\ container1.called
    /\ ~container2.called
    /\ ~result.done
    /\ \E pw \in Passwords :
          \E r \in {DecryptContainer(doc, pw)} :
             result' = [done |-> TRUE, pw |-> pw, outcome |-> r.outcome,
                        text |-> r.text, err |-> r.err,
                        derived |-> r.derived]
    /\ UNCHANGED <<plaintext, password, container1, container2, doc, tamper>>

Next ==
    \/ Seal
    \/ SealAgain
    \/ FlipByte
    \/ SetField
    \/ DropField
    \/ Forge
    \/ Open

Spec == Init /\ [][Next]_vars

---------------------------------------------------------------------------
(* Properties *)

Sealed == container1.called /\ container1.err = ""

SealedTwice == Sealed /\ container2.called /\ container2.err = ""

OpenedWith(pw) == result.done /\ result.pw = pw

Rejected(msg) == result.outcome = "error" /\ result.err = msg

\* The stored record as DecryptContainer parses it.
Parsed == Unmarshal(doc)

SameDraw(a, b) ==
    /\ a.salt.bytes = b.salt.bytes
    /\ a.iv.bytes = b.iv.bytes
    /\ a.iters = b.iters

\* C1: opening an unaltered record with the password it was sealed under
\* returns the sealed plaintext and no error, whatever salt, IV and
\* iteration count were drawn.
C1_RoundTrip ==
    (Sealed /\ tamper.kind = "none" /\ OpenedWith(password))
        => (result.outcome = "ok" /\ result.text = plaintext)

C1_Witness ==
    /\ Sealed /\ tamper.kind = "none" /\ OpenedWith(password)
    /\ plaintext = <<97, 0>>
    /\ container1.draw.iters > 4096
    /\ result.text = plaintext

\* C2: opening an unaltered record with a password other than the one it
\* was sealed under fails with "HMAC mismatch" and returns no plaintext.
C2_WrongPassword ==
    (Sealed /\ tamper.kind = "none" /\ result.done /\ result.pw # password)
        => (Rejected("HMAC mismatch") /\ result.text = <<>>)

\* C3: after any single byte of the decoded EncryptedData (the leading 16
\* bytes included) or of the stored digest is changed, opening with the
\* correct password fails with "HMAC mismatch".
C3_TamperDetection ==
    (tamper.kind = "flip" /\ OpenedWith(password))
        => Rejected("HMAC mismatch")

C5_CalibrationFloor ==
    \A c \in {container1, container2} :
        /\ c.called => c.draw.iters >= 4096
        /\ (c.called /\ c.err = "") => Unmarshal(c.json).c.Iters >= 4096

C5_Witness ==
    /\ Sealed
    /\ container1.draw.elapsed = 0
    /\ Unmarshal(container1.json).c.Iters = 4096

\* C6: a record in which one of Salt, IV, EncryptedData or HMAC holds text
\* that is not hexadecimal or has odd length is refused with a decode error.
C6_DecodeRobustness ==
    (/\ result.done
     /\ tamper.kind = "set"
     /\ tamper.field \in HexFields
     /\ Parsed.err = ""
     /\ DecodeString(Parsed.c[tamper.field]).err # "")
        => (result.outcome = "error"
            /\ result.err \in {"InvalidByteError", "ErrLength"})

\* C7: a record whose EncryptedData decodes to fewer than 16 bytes (empty
\* or missing included) is refused with an error before the key is derived.
C7_ShortPayload ==
    (/\ result.done
     /\ tamper.kind \in {"set", "drop"}
     /\ tamper.field = "EncryptedData"
     /\ Parsed.err = ""
     /\ DecodeString(Parsed.c.EncryptedData).err = ""
     /\ Len(DecodeString(Parsed.c.EncryptedData).bytes) < BlockSize)
        => (result.outcome = "error" /\ ~result.derived)

\* C8: a record whose IV is missing or decodes to other than 16 bytes, all
\* other fields well formed, is refused with an error.
C8_BadIVLength ==
    (/\ result.done
     /\ tamper.kind \in {"set", "drop"}
     /\ tamper.field = "IV"
     /\ Parsed.err = ""
     /\ DecodeString(Parsed.c.IV).err = ""
     /\ Len(DecodeString(Parsed.c.IV).bytes) # ivLen)
        => result.outcome = "error"

\* C9: a record whose Iters is zero or negative is refused with an error
\* before the key is derived.
C9_IterationCountValidated ==
    (/\ result.done
     /\ tamper.kind \in {"set", "drop"}
     /\ tamper.field = "Iters"
     /\ Parsed.err = ""
     /\ Parsed.c.Iters <= 0)
        => (result.outcome = "error" /\ ~result.derived)

\* C10: a record whose ciphertext was XORed with a non-zero delta past the
\* 16-byte prefix and whose HMAC field was replaced by the digest of
\* (plaintext XOR delta) is accepted under the sealing password, and the
\* altered plaintext is returned.
C10_Forgery ==
    (tamper.kind = "forge" /\ OpenedWith(password))
        => (/\ result.outcome = "ok"
            /\ result.text = XorBytes(plaintext, tamper.delta)
            /\ result.text # plaintext)

C10_Witness ==
    /\ tamper.kind = "forge" /\ OpenedWith(password)
    /\ Len(plaintext) = 2
    /\ tamper.delta[1] = 0
    /\ result.outcome = "ok"

===========================================================================
